---- MODULE Spec2Model ----
(***************************************************************************)
(* A model of the json-to-mssql backend: the identifier sanitizer          *)
(* (schema_engine.truncate_name), the structural analyzer                  *)
(* (schema_engine.analyze_json_structure), the row flattener               *)
(* (db_engine.flatten_data) and the loader (db_engine.sync_to_db).         *)
(*                                                                         *)
(* Names are TLA+ strings.  A JSON value is a record [t, v]: t is one of   *)
(* "null", "bool", "int", "float", "str", "obj", "list"; an object's v is  *)
(* the sequence of its members [k, v] in insertion order (a Python dict    *)
(* keeps insertion order), a list's v is the sequence of its elements.     *)
(* Values of different kinds are never put in one set and are compared     *)
(* with JEq, which looks at the kind first.                                *)
(***************************************************************************)
EXTENDS Integers, Sequences, FiniteSets, TLC

VARIABLES
    pc,                 \* position of the running call
    name,               \* truncate_name: the input
    out1,               \* truncate_name(name)
    out2,               \* truncate_name(truncate_name(name))
    data,               \* analyze_json_structure: the document analysed
    single_root,        \* analyze_json_structure: single_root
    queue,              \* analyze_json_structure: queue
    tables,             \* analyze_json_structure: tables, in insertion order
    processed_tables,   \* analyze_json_structure: processed_tables
    parent_of,          \* per table analysed, the parent_table_name of its work item
    schema_map,         \* the SchemaMap returned by the analyzer
    json_data,          \* flatten_data: the document flattened
    resent,             \* whether json_data is the document analysed
    fqueue,             \* flatten_data: queue
    flat_rows,          \* flatten_data: flat_rows, table name -> rows
    id_counters,        \* flatten_data: id_counters
    dequeued,           \* per table, the objects dequeued for it so far
    parent_ids,         \* per table and row, the parent_id of the row's work item (0: None)
    flat_data,          \* sync_to_db: flat_data, table name -> rows
    sorted_tables,      \* sync_to_db: sorted_tables
    pending,            \* sync_to_db: pending
    db,                 \* the destination as committed: table name -> rows
    txn,                \* the destination as the open transaction sees it
    before,             \* the destination before the run
    error,              \* whether sync_to_db raised
    idx,                \* sync_to_db: the table the drop or insert loop is at
    offset,             \* sync_to_db: i of the batch loop
    created,            \* the tables create_all has visited
    log                 \* the statements executed so far

nameVars == <<name, out1, out2>>
analyzeVars == <<data, single_root, queue, tables, processed_tables, parent_of, schema_map>>
flattenVars == <<json_data, resent, fqueue, flat_rows, id_counters, dequeued, parent_ids>>
syncVars == <<flat_data, sorted_tables, pending, db, txn, before, error, idx, offset,
              created, log>>
vars == <<pc, nameVars, analyzeVars, flattenVars, syncVars>>

(***************************************************************************)
(* Program constants                                                       *)
(***************************************************************************)
MAX_NAME_LENGTH == 110
hash_prefix_length == 10
HashDigits == 8
SAMPLE_ROWS == 100
chunk_size == 500
root_name == "Root"
\* Python's None where a name is expected (no table has the empty name)
None == ""

(***************************************************************************)
(* Bounds of the model                                                     *)
(***************************************************************************)
\* longest name given to truncate_name on its own
MaxNameLen == 113
\* shortest of the long names given to truncate_name on its own
MinNameLen == 107
\* longest top-level list of a structural document
MaxTop == 2
\* longest list of child objects
MaxItems == 2
\* longest top-level list of a sampling document
MaxSamples == 3
\* most tables of a SchemaMap handed to sync_to_db on its own
MaxTables == 3
\* most rows of a table handed to sync_to_db on its own
MaxRows == 2
\* the most full batches a table's rows fill in the batching runs
MaxBatches == 2

(***************************************************************************)
(* Strings                                                                 *)
(***************************************************************************)
Char(s, i) == SubSeq(s, i, i)

\* Python's s[-n:] for n > 0
Suffix(s, n) == IF Len(s) <= n THEN s ELSE SubSeq(s, Len(s) - n + 1, Len(s))

Lowercase == "abcdefghijklmnopqrstuvwxyz"
Uppercase == "ABCDEFGHIJKLMNOPQRSTUVWXYZ"
Alphabet == Lowercase \o Uppercase \o "0123456789_"
HexDigits == "0123456789abcdef"

IsLetter(c) == \E i \in 1..Len(Lowercase) : c = Char(Lowercase, i) \/ c = Char(Uppercase, i)

IsHexString(s) == \A i \in 1..Len(s) : \E j \in 1..Len(HexDigits) : Char(s, i) = Char(HexDigits, j)

\* the code point of a character, as its place in Alphabet (0 for any other)
Code(c) ==
    IF \E i \in 1..Len(Alphabet) : Char(Alphabet, i) = c
    THEN CHOOSE i \in 1..Len(Alphabet) : Char(Alphabet, i) = c
    ELSE 0

\* c repeated n times (by halving: the evaluation stays shallow)
RECURSIVE Repeat(_, _)
Repeat(c, n) ==
    IF n <= 0 THEN ""
    ELSE IF n = 1 THEN c
    ELSE Repeat(c, n \div 2) \o Repeat(c, n - (n \div 2))

\* str.lower() of one character and of a string
LowerChar(c) ==
    IF \E i \in 1..Len(Uppercase) : Char(Uppercase, i) = c
    THEN Char(Lowercase, CHOOSE i \in 1..Len(Uppercase) : Char(Uppercase, i) = c)
    ELSE c

RECURSIVE LowerRange(_, _, _)
LowerRange(s, lo, hi) ==
    IF lo > hi THEN ""
    ELSE IF lo = hi THEN LowerChar(Char(s, lo))
    ELSE LowerRange(s, lo, (lo + hi) \div 2) \o LowerRange(s, ((lo + hi) \div 2) + 1, hi)

lower(s) == LowerRange(s, 1, Len(s))

(***************************************************************************)
(* hashlib.md5(name.encode()).hexdigest()[:8].  MD5 itself is not          *)
(* modelled: the digest is a deterministic function of the whole name      *)
(* that yields 8 lowercase hexadecimal characters, here a polynomial       *)
(* hash of the characters (24 bits) followed by a checksum (8 bits), both  *)
(* computed by halving the name.                                           *)
(***************************************************************************)
RECURSIVE PolyHash(_, _, _)
PolyHash(s, lo, hi) ==
    IF lo > hi THEN 7
    ELSE IF lo = hi THEN Code(Char(s, lo)) + 1
    ELSE (PolyHash(s, lo, (lo + hi) \div 2) * 31
          + PolyHash(s, ((lo + hi) \div 2) + 1, hi) * 17 + hi) % 16777216

RECURSIVE CheckSum(_, _, _)
CheckSum(s, lo, hi) ==
    IF lo > hi THEN 0
    ELSE IF lo = hi THEN (lo * (Code(Char(s, lo)) + 1)) % 256
    ELSE (CheckSum(s, lo, (lo + hi) \div 2)
          + CheckSum(s, ((lo + hi) \div 2) + 1, hi)) % 256

RECURSIVE ToHex(_, _)
ToHex(n, digits) ==
    IF digits = 0 THEN ""
    ELSE ToHex(n \div 16, digits - 1) \o Char(HexDigits, (n % 16) + 1)

name_hash(s) == ToHex(PolyHash(s, 1, Len(s)), HashDigits - 2) \o ToHex(CheckSum(s, 1, Len(s)), 2)

(***************************************************************************)
(* schema_engine.truncate_name                                             *)
(***************************************************************************)
available_for_name == MAX_NAME_LENGTH - hash_prefix_length

truncate_name(s) ==
    IF Len(s) <= MAX_NAME_LENGTH THEN s
    ELSE "T_" \o name_hash(s) \o "_" \o Suffix(s, available_for_name)

(***************************************************************************)
(* JSON values                                                             *)
(***************************************************************************)
JNull == [t |-> "null", v |-> 0]
JBool(b) == [t |-> "bool", v |-> b]
JInt(n) == [t |-> "int", v |-> n]
JFloat(x) == [t |-> "float", v |-> x]
JStr(x) == [t |-> "str", v |-> x]
JObj(members) == [t |-> "obj", v |-> members]
JList(elems) == [t |-> "list", v |-> elems]
Member(k, v) == [k |-> k, v |-> v]

\* equality of two scalar values
JEq(a, b) == a.t = b.t /\ a.v = b.v

IsDict(x) == x.t = "obj"
IsList(x) == x.t = "list"

\* the place of key k in a sequence of records with a field k, 0 if absent
KeyIndex(seq, k) ==
    IF \E i \in 1..Len(seq) : seq[i].k = k
    THEN CHOOSE i \in 1..Len(seq) : seq[i].k = k
    ELSE 0

Min(a, b) == IF a <= b THEN a ELSE b

(***************************************************************************)
(* schema_engine.determine_sql_type and the widening of a column's type    *)
(***************************************************************************)
determine_sql_type(value) ==
    IF value.t = "bool" THEN "BIT"
    ELSE IF value.t = "int" THEN "INT"
    ELSE IF value.t = "float" THEN "FLOAT"
    ELSE IF value.t = "str" THEN "NVARCHAR(MAX)"
    ELSE "NVARCHAR(MAX)"

\* lines 151-157: the tuple tests are for the exact strings
UpgradeType(curr, new) ==
    IF curr = new THEN curr
    ELSE IF "NVARCHAR" \in {curr, new} THEN "NVARCHAR(MAX)"
    ELSE IF "FLOAT" \in {curr, new} THEN "FLOAT"
    ELSE curr

\* columns_map[k] after a scalar sample of key k
SampleScalar(columns_map, k, v) ==
    LET i == KeyIndex(columns_map, k) IN
    IF i = 0 THEN Append(columns_map, [k |-> k, type |-> determine_sql_type(v)])
    ELSE [columns_map EXCEPT ![i].type = UpgradeType(@, determine_sql_type(v))]

\* child_arrays[k] extended by the list more
ExtendChild(child_arrays, k, more) ==
    LET i == KeyIndex(child_arrays, k) IN
    IF i = 0 THEN Append(child_arrays, [k |-> k, v |-> more])
    ELSE [child_arrays EXCEPT ![i].v = @ \o more]

WrapValues(items) == [i \in 1..Len(items) |-> JObj(<<Member("Value", items[i])>>)]

\* lines 112-157: one key of one sampled object
SampleMember(acc, m) ==
    IF m.v.t = "null" THEN acc
    ELSE IF IsDict(m.v) THEN
        [acc EXCEPT !.child_arrays = ExtendChild(@, m.k, <<m.v>>)]
    ELSE IF IsList(m.v) THEN
        IF Len(m.v.v) > 0 /\ m.v.v[1].t \in {"obj", "list"} THEN
            [acc EXCEPT !.child_arrays = ExtendChild(@, m.k, m.v.v)]
        ELSE IF Len(m.v.v) > 0 THEN
            [acc EXCEPT !.child_arrays = ExtendChild(@, m.k, WrapValues(m.v.v))]
        ELSE acc
    ELSE [acc EXCEPT !.columns_map = SampleScalar(@, m.k, m.v)]

RECURSIVE SampleObject(_, _, _)
SampleObject(acc, members, i) ==
    IF i > Len(members) THEN acc
    ELSE SampleObject(SampleMember(acc, members[i]), members, i + 1)

\* lines 108-157: the sampled rows, in order; a row that is no dict is skipped
RECURSIVE SampleRows(_, _, _)
SampleRows(acc, rows, i) ==
    IF i > Len(rows) THEN acc
    ELSE SampleRows(IF IsDict(rows[i]) THEN SampleObject(acc, rows[i].v, 1) ELSE acc,
                    rows, i + 1)

ColumnSchema(n, ty, pk, fk, fkt, fkc) ==
    [name |-> n, type |-> ty, is_pk |-> pk, is_fk |-> fk, fk_table |-> fkt, fk_column |-> fkc]

DataColumn(k, ty) ==
    IF lower(k) = "id" THEN ColumnSchema("original_id", ty, FALSE, FALSE, None, None)
    ELSE ColumnSchema(truncate_name(k), ty, FALSE, FALSE, None, None)

\* lines 159-180: the column list of a table
BuildColumns_FkLast(parent_table_name, columns_map) ==
    <<ColumnSchema("id", "INT IDENTITY(1,1)", TRUE, FALSE, None, None)>>
    \o [i \in 1..Len(columns_map) |-> DataColumn(columns_map[i].k, columns_map[i].type)]
    \o (IF parent_table_name # None
        THEN <<ColumnSchema(truncate_name(parent_table_name \o "_id"), "INT",
                            FALSE, TRUE, parent_table_name, "id")>>
        ELSE <<>>)

BuildColumns(parent_table_name, columns_map) ==
    <<ColumnSchema("id", "INT IDENTITY(1,1)", TRUE, FALSE, None, None)>>
    \o (IF parent_table_name # None
        THEN <<ColumnSchema(truncate_name(parent_table_name \o "_id"), "INT",
                            FALSE, TRUE, parent_table_name, "id")>>
        ELSE <<>>)
    \o [i \in 1..Len(columns_map) |-> DataColumn(columns_map[i].k, columns_map[i].type)]

TableSchema(n, cols, root) == [name |-> n, columns |-> cols, is_root |-> root]

ChildTableName(current_table_name, k) == truncate_name(current_table_name \o "_" \o k)

\* lines 189-193: the work items of the children found
ChildItems(current_table_name, child_arrays) ==
    [i \in 1..Len(child_arrays) |->
        [name |-> ChildTableName(current_table_name, child_arrays[i].k),
         objects |-> child_arrays[i].v,
         parent |-> current_table_name]]

TableNames(ts) == {ts[i].name : i \in 1..Len(ts)}

(***************************************************************************)
(* schema_engine.analyze_json_structure                                    *)
(***************************************************************************)
\* lines 67-83: the first work item
InitialQueue(d) ==
    IF IsDict(d) THEN <<[name |-> root_name, objects |-> <<d>>, parent |-> None]>>
    ELSE IF IsList(d) THEN
        IF Len(d.v) = 1 /\ IsDict(d.v[1])
        THEN <<[name |-> root_name, objects |-> <<d.v[1]>>, parent |-> None]>>
        ELSE <<[name |-> root_name, objects |-> d.v, parent |-> None]>>
    ELSE <<>>

\* lines 68-78: single_root
InitialSingleRoot_DictOnly(d) == IsDict(d)

InitialSingleRoot(d) == IsDict(d) \/ (IsList(d) /\ Len(d.v) = 1 /\ IsDict(d.v[1]))

AnalyzeIdle ==
    /\ data = JNull
    /\ single_root = FALSE
    /\ queue = <<>>
    /\ tables = <<>>
    /\ processed_tables = {}
    /\ parent_of = <<>>
    /\ schema_map = <<>>

SyncIdle ==
    /\ flat_data = <<>>
    /\ sorted_tables = <<>>
    /\ pending = <<>>
    /\ db = <<>>
    /\ txn = <<>>
    /\ before = <<>>
    /\ error = FALSE
    /\ idx = 0
    /\ offset = 0
    /\ created = {}
    /\ log = <<>>

FlattenIdle ==
    /\ json_data = JNull
    /\ resent = "none"
    /\ fqueue = <<>>
    /\ flat_rows = <<>>
    /\ id_counters = <<>>
    /\ dequeued = <<>>
    /\ parent_ids = <<>>

\* lines 87-97: an item with no objects, or of a table already processed
AnalyzeSkip ==
    /\ pc = "analyze"
    /\ Len(queue) > 0
    /\ Len(Head(queue).objects) = 0 \/ Head(queue).name \in processed_tables
    /\ queue' = Tail(queue)
    /\ UNCHANGED <<pc, nameVars, data, single_root, tables, processed_tables, parent_of,
                   schema_map, flattenVars, syncVars>>

\* lines 87-193: one table analysed
AnalyzeTable ==
    /\ pc = "analyze"
    /\ Len(queue) > 0
    /\ Len(Head(queue).objects) > 0
    /\ Head(queue).name \notin processed_tables
    /\ LET item == Head(queue)
           sample_rows == SubSeq(item.objects, 1, Min(SAMPLE_ROWS, Len(item.objects)))
           found == SampleRows([columns_map |-> <<>>, child_arrays |-> <<>>], sample_rows, 1)
       IN
        /\ processed_tables' = processed_tables \cup {item.name}
        /\ parent_of' = [x \in (DOMAIN parent_of) \cup {item.name} |->
                            IF x = item.name THEN item.parent ELSE parent_of[x]]
        /\ tables' = Append(tables,
                TableSchema(item.name, BuildColumns(item.parent, found.columns_map),
                            item.parent = None))
        /\ queue' = Tail(queue) \o ChildItems(item.name, found.child_arrays)
    /\ UNCHANGED <<pc, nameVars, data, single_root, schema_map, flattenVars, syncVars>>

\* lines 207-209: whether the table has a foreign key to the root table
HasRootFk_Never(t) == FALSE

HasRootFk(t) == \E i \in 1..Len(t.columns) : t.columns[i].is_fk /\ t.columns[i].fk_table = root_name

\* lines 202-212: a direct child of the removed root
Promote(t) ==
    IF HasRootFk(t)
    THEN TableSchema(t.name,
                     SelectSeq(t.columns, LAMBDA c : ~(c.is_fk /\ c.fk_table = root_name)),
                     TRUE)
    ELSE TableSchema(t.name, t.columns, t.is_root)

\* lines 195-214
CollapseRoot(ts, single) ==
    IF single /\ root_name \in TableNames(ts)
    THEN LET kept == SelectSeq(ts, LAMBDA t : t.name # root_name)
         IN [i \in 1..Len(kept) |-> Promote(kept[i])]
    ELSE ts

AnalyzeReturn ==
    /\ pc = "analyze"
    /\ Len(queue) = 0
    /\ schema_map' = CollapseRoot(tables, single_root)
    /\ pc' = "sync_request"
    /\ UNCHANGED <<nameVars, data, single_root, queue, tables, processed_tables, parent_of,
                   flattenVars, syncVars>>

(***************************************************************************)
(* db_engine.flatten_data                                                  *)
(***************************************************************************)
\* table_schemas.get(n): a dict built from a list keeps the last entry of a name
HasSchema(sm, n) == \E i \in 1..Len(sm) : sm[i].name = n

SchemaOf(sm, n) == sm[CHOOSE i \in 1..Len(sm) : sm[i].name = n /\ \A j \in (i+1)..Len(sm) : sm[j].name # n]

\* line 47: the first table marked root, 0 if there is none
RootIndex(sm) ==
    IF \E i \in 1..Len(sm) : sm[i].is_root
    THEN CHOOSE i \in 1..Len(sm) : sm[i].is_root /\ \A j \in 1..(i-1) : ~sm[j].is_root
    ELSE 0

\* s.rsplit('_', 1)[0]
RSplitHead(s) ==
    IF \E i \in 1..Len(s) : Char(s, i) = "_"
    THEN LET last == CHOOSE i \in 1..Len(s) :
                        Char(s, i) = "_" /\ \A j \in (i+1)..Len(s) : Char(s, j) # "_"
         IN SubSeq(s, 1, last - 1)
    ELSE s

ColumnNames(schema) == {schema.columns[i].name : i \in 1..Len(schema.columns)}

\* line 79: the first column marked as a foreign key, 0 if there is none
FkIndex(schema) ==
    IF \E i \in 1..Len(schema.columns) : schema.columns[i].is_fk
    THEN CHOOSE i \in 1..Len(schema.columns) :
            schema.columns[i].is_fk /\ \A j \in 1..(i-1) : ~schema.columns[j].is_fk
    ELSE 0

\* row[k] = v
SetField(row, k, v) == [x \in (DOMAIN row) \cup {k} |-> IF x = k THEN v ELSE row[x]]

\* line 74: the test that guards the foreign-key field
FkGuard(schema, parent_id) ==
    parent_id # 0 /\ (RSplitHead(schema.name) \o "_id") \in ColumnNames(schema)

\* lines 73-81: the row before its fields are copied (parent_id 0 is None)
NewRow(schema, current_id, parent_id) ==
    LET row == [x \in {"id"} |-> JInt(current_id)] IN
    IF FkGuard(schema, parent_id) /\ FkIndex(schema) # 0
    THEN SetField(row, schema.columns[FkIndex(schema)].name, JInt(parent_id))
    ELSE row

\* line 87: the child table's name as the flattener derives it
FlatChildName(current_table_name, k) == current_table_name \o "_" \o k

\* line 97: whether the table's schema declares a column of that name
DeclaresColumn_Always(schema, col_name) == TRUE

DeclaresColumn(schema, col_name) ==
    \E i \in 1..Len(schema.columns) : schema.columns[i].name = col_name

\* lines 84-98: one key of the object; acc is [row, queue]
FlattenMember(acc, sm, schema, current_id, m) ==
    IF m.v.t \in {"obj", "list"} THEN
        IF HasSchema(sm, FlatChildName(schema.name, m.k))
        THEN [acc EXCEPT !.queue = Append(@,
                [name |-> FlatChildName(schema.name, m.k),
                 objects |-> IF IsList(m.v) THEN m.v.v ELSE <<m.v>>,
                 parent_id |-> current_id])]
        ELSE acc
    ELSE LET col_name == IF lower(m.k) = "id" THEN "original_id" ELSE m.k IN
         IF DeclaresColumn(schema, col_name)
         THEN [acc EXCEPT !.row = SetField(@, col_name, m.v)]
         ELSE acc

RECURSIVE FlattenFields(_, _, _, _, _, _)
FlattenFields(acc, sm, schema, current_id, members, i) ==
    IF i > Len(members) THEN acc
    ELSE FlattenFields(FlattenMember(acc, sm, schema, current_id, members[i]),
                       sm, schema, current_id, members, i + 1)

\* lines 62-66: an element that is no dict is wrapped
AsObject(obj) == IF IsDict(obj) THEN obj ELSE JObj(<<Member("Value", obj)>>)

\* lines 61-100: the objects of one work item; acc is [rows, next_id, queue]
RECURSIVE FlattenObjects(_, _, _, _, _, _)
FlattenObjects(acc, sm, schema, parent_id, objects, i) ==
    IF i > Len(objects) THEN acc
    ELSE LET current_id == acc.next_id
             done == FlattenFields([row |-> NewRow(schema, current_id, parent_id),
                                    queue |-> acc.queue],
                                   sm, schema, current_id, AsObject(objects[i]).v, 1)
         IN FlattenObjects([rows |-> Append(acc.rows, done.row),
                            next_id |-> current_id + 1,
                            queue |-> done.queue],
                           sm, schema, parent_id, objects, i + 1)

\* line 69: the key of the first object of a work item
StartId_PerItem(counters, n) == 1

StartId(counters, n) == counters[n]

\* lines 36-54
FlattenStart ==
    /\ pc = "flatten_start"
    /\ IF RootIndex(schema_map) = 0
       THEN /\ flat_rows' = <<>>
            /\ id_counters' = [n \in TableNames(schema_map) |-> 1]
            /\ dequeued' = [n \in TableNames(schema_map) |-> 0]
            /\ parent_ids' = [n \in TableNames(schema_map) |-> <<>>]
            /\ fqueue' = <<>>
            /\ pc' = "done"
       ELSE /\ flat_rows' = [n \in TableNames(schema_map) |-> <<>>]
            /\ id_counters' = [n \in TableNames(schema_map) |-> 1]
            /\ dequeued' = [n \in TableNames(schema_map) |-> 0]
            /\ parent_ids' = [n \in TableNames(schema_map) |-> <<>>]
            /\ fqueue' =
                IF IsDict(json_data)
                THEN <<[name |-> schema_map[RootIndex(schema_map)].name,
                        objects |-> <<json_data>>, parent_id |-> 0]>>
                ELSE IF IsList(json_data)
                THEN <<[name |-> schema_map[RootIndex(schema_map)].name,
                        objects |-> json_data.v, parent_id |-> 0]>>
                ELSE <<>>
            /\ pc' = "flatten"
    /\ UNCHANGED <<nameVars, analyzeVars, json_data, resent, syncVars>>

\* lines 56-100: one work item; the lookups of lines 69 and 100 raise
\* KeyError for a name the dicts do not hold
FlattenItem ==
    /\ pc = "flatten"
    /\ Len(fqueue) > 0
    /\ LET item == Head(fqueue) IN
       IF ~HasSchema(schema_map, item.name)
       THEN /\ fqueue' = Tail(fqueue)
            /\ UNCHANGED <<pc, flat_rows, id_counters, dequeued, parent_ids>>
       ELSE IF item.name \notin DOMAIN id_counters \/ item.name \notin DOMAIN flat_rows
       THEN /\ pc' = "raised"
            /\ UNCHANGED <<fqueue, flat_rows, id_counters, dequeued, parent_ids>>
       ELSE LET schema == SchemaOf(schema_map, item.name)
                done == FlattenObjects([rows |-> flat_rows[item.name],
                                        next_id |-> StartId(id_counters, item.name),
                                        queue |-> Tail(fqueue)],
                                       schema_map, schema, item.parent_id, item.objects, 1)
            IN /\ flat_rows' = [flat_rows EXCEPT ![item.name] = done.rows]
               /\ id_counters' = [id_counters EXCEPT ![item.name] = done.next_id]
               /\ fqueue' = done.queue
               /\ dequeued' = [dequeued EXCEPT ![item.name] = @ + Len(item.objects)]
               /\ parent_ids' = [parent_ids EXCEPT ![item.name] =
                                    @ \o [j \in 1..Len(item.objects) |-> item.parent_id]]
               /\ pc' = pc
    /\ UNCHANGED <<nameVars, analyzeVars, json_data, resent, syncVars>>

\* line 102
FlattenReturn ==
    /\ pc = "flatten"
    /\ Len(fqueue) = 0
    /\ pc' = "done"
    /\ UNCHANGED <<nameVars, analyzeVars, flattenVars, syncVars>>

(***************************************************************************)
(* The documents of the model.  A structural document is a root shape      *)
(* instantiated once (a bare object) or for each element of a top-level    *)
(* list; a shape gives the scalar fields of an object and at most one      *)
(* child key, holding an object, a list of objects of one shape, or a      *)
(* list of scalars.  The i-th instance of a shape carries values of its    *)
(* own.  A sampling document is a top-level list of objects with the one   *)
(* key "c", whose values range over all the scalar types.                  *)
(***************************************************************************)
RECURSIVE ToDec(_)
ToDec(n) == IF n < 10 THEN Char("0123456789", n + 1)
            ELSE ToDec(n \div 10) \o Char("0123456789", (n % 10) + 1)

\* a key so long that "Root_" + key has more than MAX_NAME_LENGTH characters
LongKey == Repeat("k", MAX_NAME_LENGTH - 4)

RootChildKeys == {"items", "a_b", LongKey}

FieldsOf(f, i) ==
    CASE f = "none" -> <<>>
      [] f = "sku" -> <<Member("sku", JStr("A" \o ToDec(i)))>>
      [] f = "skuqty" -> <<Member("sku", JStr("A" \o ToDec(i))), Member("qty", JInt(i))>>
      [] f = "ids" -> <<Member("id", JInt(i)), Member("ID", JStr("X" \o ToDec(i)))>>
      [] f = "fkname" -> <<Member("Root_id", JInt(100 + i)), Member("original_id", JInt(i)),
                           Member("Id", JInt(i))>>
      [] f = "null" -> <<Member("note", JNull), Member("sku", JStr("A" \o ToDec(i)))>>

ChildSpecs ==
    {[kind |-> "none", n |-> 0], [kind |-> "obj", n |-> 1], [kind |-> "scalars", n |-> 2]}
    \cup {[kind |-> "list", n |-> n] : n \in 0..MaxItems}

ScalarList(i, n) == JList([j \in 1..n |-> JStr("t" \o ToDec(10 * i + j))])

\* the member a child specification adds to the i-th instance of a shape;
\* Build(j) is the j-th instance of the child's shape
ChildMember(key, c, i, Build(_)) ==
    CASE c.kind = "none" -> <<>>
      [] c.kind = "obj" -> <<Member(key, Build(10 * i + 1))>>
      [] c.kind = "scalars" -> <<Member(key, ScalarList(i, c.n))>>
      [] c.kind = "list" -> <<Member(key, JList([j \in 1..c.n |-> Build(10 * i + j)]))>>

LeafObject(i) == JObj(FieldsOf("sku", i))

\* the shapes of a child of the root: its fields and what its key "sub" holds
ChildShapes == [f : {"none", "skuqty"}, c : ChildSpecs]

BuildChild(sh, i) == JObj(FieldsOf(sh.f, i) \o ChildMember("sub", sh.c, i, LAMBDA j : LeafObject(j)))

NoChildShape == [f |-> "none", c |-> [kind |-> "none", n |-> 0]]

\* the shapes of a root object
RootShapes ==
    [f : {"none", "skuqty"}, key : {"items"}, c : {[kind |-> "none", n |-> 0]}, sub : {NoChildShape}]
    \cup [f : {"none", "skuqty"}, key : RootChildKeys, c : {[kind |-> "scalars", n |-> 2]},
          sub : {NoChildShape}]
    \cup [f : {"none", "skuqty"}, key : RootChildKeys,
          c : {x \in ChildSpecs : x.kind \in {"obj", "list"}}, sub : ChildShapes]

BuildRoot(sh, i) ==
    JObj(FieldsOf(sh.f, i) \o ChildMember(sh.key, sh.c, i, LAMBDA j : BuildChild(sh.sub, j)))

\* documents kept for what they have that no shape gives: a scalar root,
\* a list of scalars, two children under the root, keys that meet the
\* synthetic column names, a key path that meets another table's name, a
\* list of lists
SpecialDocs ==
    << JInt(5),
       JList(<<JInt(1), JInt(2)>>),
       JObj(<<Member("a", JObj(<<Member("b", JObj(<<Member("c", JInt(1))>>))>>)),
              Member("z", JObj(<<Member("q", JInt(1))>>))>>),
       JList(<<JObj(FieldsOf("ids", 1) \o <<Member("k", JObj(FieldsOf("fkname", 1)))>>),
               JObj(FieldsOf("ids", 2))>>),
       JList(<<JObj(<<Member("a", JObj(<<Member("b", JObj(<<Member("x", JInt(1))>>))>>)),
                      Member("a_b", JObj(<<Member("y", JInt(2))>>))>>),
               JObj(FieldsOf("null", 2))>>),
       JList(<<JObj(<<Member("m", JList(<<JList(<<JInt(1)>>), JList(<<JInt(2)>>)>>))>>),
               JObj(<<Member("m", JList(<<>>))>>)>>) >>

SampleOf(tag) ==
    CASE tag = "null" -> JNull
      [] tag = "bool" -> JBool(TRUE)
      [] tag = "int" -> JInt(1)
      [] tag = "float" -> JFloat("2.5")
      [] tag = "str" -> JStr("x")

SampleTags == {"null", "bool", "int", "float", "str"}

\* the sequences of at most n sample kinds
RECURSIVE TagLists(_)
TagLists(n) ==
    IF n = 0 THEN {<<>>}
    ELSE LET shorter == TagLists(n - 1) IN
         shorter \cup {Append(l, x) : l \in {y \in shorter : Len(y) = n - 1}, x \in SampleTags}

SamplingDoc(l) == JList([i \in 1..Len(l) |-> JObj(<<Member("c", SampleOf(l[i]))>>)])

\* the documents analysed
IsDocument(d) ==
    \/ \E sh \in RootShapes : d = BuildRoot(sh, 1)
    \/ \E sh \in RootShapes, n \in 0..MaxTop : d = JList([i \in 1..n |-> BuildRoot(sh, i)])
    \/ \E i \in DOMAIN SpecialDocs : d = SpecialDocs[i]
    \/ \E l \in TagLists(MaxSamples) : d = SamplingDoc(l)

\* documents handed to the flattener in place of the one analysed
OtherDocs ==
    << JList(<<JObj(<<Member("sku", JStr("B1")), Member("extra", JInt(1)),
                      Member("items", JList(<<JObj(<<Member("sku", JStr("B2")),
                                                       Member("zzz", JBool(TRUE))>>),
                                               JStr("loose")>>)),
                      Member("other", JObj(<<Member("q", JInt(1))>>))>>),
               JStr("loose")>>),
       JObj(<<Member("items", JObj(<<Member("sku", JInt(3))>>)), Member("qty", JNull)>>) >>

(***************************************************************************)
(* The pipeline: a document is analysed (main.process_json), then the      *)
(* SchemaMap and a document, the same or another, are flattened            *)
(* (main.sync).                                                            *)
(***************************************************************************)
Init ==
    /\ pc = "analyze"
    /\ name = "" /\ out1 = "" /\ out2 = ""
    /\ IsDocument(data)
    /\ single_root = InitialSingleRoot(data)
    /\ queue = InitialQueue(data)
    /\ tables = <<>>
    /\ processed_tables = {}
    /\ parent_of = <<>>
    /\ schema_map = <<>>
    /\ FlattenIdle
    /\ SyncIdle

\* main.sync: the request carries the SchemaMap and the document to flatten
ReceiveSync ==
    /\ pc = "sync_request"
    /\ \/ json_data' = data /\ resent' = "same"
       \/ \E i \in DOMAIN OtherDocs : json_data' = OtherDocs[i] /\ resent' = "other"
    /\ pc' = "flatten_start"
    /\ UNCHANGED <<nameVars, analyzeVars, fqueue, flat_rows, id_counters, dequeued, parent_ids,
                   syncVars>>

Next ==
    \/ AnalyzeSkip
    \/ AnalyzeTable
    \/ AnalyzeReturn
    \/ ReceiveSync
    \/ FlattenStart
    \/ FlattenItem
    \/ FlattenReturn

Spec == Init /\ [][Next]_vars

(***************************************************************************)
(* The sanitizer on its own: a name is drawn, sanitized once, and the      *)
(* result sanitized again.                                                 *)
(***************************************************************************)
PadChars == {"a", "Z", "_", "9"}
Tails == {"", "_id", "k"}
ShortNames == {"", "id", "Root", "Root_items"}

Names ==
    ShortNames \cup
    { Repeat(c, n - Len(t)) \o t : c \in PadChars, n \in MinNameLen..MaxNameLen, t \in Tails }

NameInit ==
    /\ pc = "name"
    /\ name \in Names
    /\ out1 = ""
    /\ out2 = ""
    /\ AnalyzeIdle
    /\ FlattenIdle
    /\ SyncIdle

Sanitize ==
    /\ pc = "name"
    /\ out1' = truncate_name(name)
    /\ pc' = "name1"
    /\ UNCHANGED <<name, out2, analyzeVars, flattenVars, syncVars>>

SanitizeAgain ==
    /\ pc = "name1"
    /\ out2' = truncate_name(out1)
    /\ pc' = "name2"
    /\ UNCHANGED <<name, out1, analyzeVars, flattenVars, syncVars>>

NameNext == Sanitize \/ SanitizeAgain

SpecName == NameInit /\ [][NameNext]_vars

\* C4: truncate_name returns a name of at most 110 characters: a name of
\* at most 110 characters is returned unchanged, a longer one yields exactly
\* 110 characters, "T_" + 8 hexadecimal characters + "_" + the trailing
\* characters of the original, beginning with a letter.
C4_TruncateAtMost110 ==
    pc \in {"name1", "name2"} =>
        /\ Len(out1) <= MAX_NAME_LENGTH
        /\ Len(name) <= MAX_NAME_LENGTH => out1 = name
        /\ Len(name) > MAX_NAME_LENGTH =>
            /\ Len(out1) = MAX_NAME_LENGTH
            /\ IsLetter(Char(out1, 1))
            /\ SubSeq(out1, 1, 2) = "T_"
            /\ IsHexString(SubSeq(out1, 3, 2 + HashDigits))
            /\ Char(out1, 3 + HashDigits) = "_"
            /\ SubSeq(out1, 4 + HashDigits, Len(out1)) =
                   Suffix(name, MAX_NAME_LENGTH - (3 + HashDigits))

\* C5: name sanitization is idempotent: sanitizing the sanitized name
\* yields the sanitized name again, also for names longer than 110.
C5_TruncateIdempotent ==
    pc = "name2" => out2 = out1

(***************************************************************************)
(* db_engine.sync_to_db.  The destination is a function from the names of  *)
(* its tables to their rows.  The statements run on a connection obtained  *)
(* with engine.begin(): they act on the transaction's view txn, which is   *)
(* committed when the block is left normally and rolled back when a        *)
(* statement raises (DDL is transactional in SQL Server).  Any statement   *)
(* may raise.  create_all visits the tables in an order of the library's   *)
(* choosing.                                                               *)
(***************************************************************************)
\* line 121: whether table t can be placed after the tables placed so far
CanPlace_Always(t, placed, sm) == TRUE

CanPlace(t, placed, sm) ==
    \/ FkIndex(t) = 0
    \/ t.columns[FkIndex(t)].fk_table \in TableNames(placed)
    \/ t.columns[FkIndex(t)].fk_table \notin TableNames(sm)

\* list.remove(t): the first element equal to t goes
RemoveFirst(seq, t) ==
    LET i == CHOOSE x \in 1..Len(seq) : seq[x] = t /\ \A y \in 1..(x-1) : seq[y] # t
    IN SubSeq(seq, 1, i - 1) \o SubSeq(seq, i + 1, Len(seq))

\* lines 118-124: one pass over a copy of pending; acc is [sorted, pending, progress]
RECURSIVE OrderScan(_, _, _, _)
OrderScan(acc, snapshot, sm, i) ==
    IF i > Len(snapshot) THEN acc
    ELSE OrderScan(IF CanPlace(snapshot[i], acc.sorted, sm)
                   THEN [sorted |-> Append(acc.sorted, snapshot[i]),
                         pending |-> RemoveFirst(acc.pending, snapshot[i]),
                         progress |-> TRUE]
                   ELSE acc,
                   snapshot, sm, i + 1)

\* lines 125-128: no table was placed in a pass, the remainder is added
Fallback_Drop(sorted, rest) == sorted

Fallback(sorted, rest) == sorted \o rest

\* line 158: reversed(sorted_tables)
reversed_Same(seq) == seq

reversed(seq) == [i \in 1..Len(seq) |-> seq[Len(seq) - i + 1]]

\* lines 114-128: the load order of a SchemaMap and whether the remainder
\* had to be added without order
RECURSIVE LoadOrder(_, _, _)
LoadOrder(sorted, rest, sm) ==
    IF Len(rest) = 0 THEN [order |-> sorted, fallback |-> FALSE]
    ELSE LET pass == OrderScan([sorted |-> sorted, pending |-> rest, progress |-> FALSE],
                               rest, sm, 1)
         IN IF pass.progress THEN LoadOrder(pass.sorted, pass.pending, sm)
            ELSE [order |-> Fallback(sorted, rest), fallback |-> TRUE]

\* flat_data.get(name, [])
RowsFor(n) == IF n \in DOMAIN flat_data THEN flat_data[n] ELSE <<>>

\* rows[i:i+chunk_size]
Batch_Rest(rows, i) == SubSeq(rows, i + 1, Len(rows))

Batch(rows, i) == SubSeq(rows, i + 1, Min(i + chunk_size, Len(rows)))

DropTable(t, n) == [x \in (DOMAIN t) \ {n} |-> t[x]]
CreateTable(t, n) == [x \in (DOMAIN t) \cup {n} |-> IF x = n THEN <<>> ELSE t[x]]
InsertRows(t, n, rows) == [t EXCEPT ![n] = @ \o rows]

Statement(op, n, rows) == [op |-> op, table |-> n, rows |-> rows]

\* line 155: what the destination holds once the block was left by an exception
AfterRollback_Keep(committed, working) == working

AfterRollback(committed, working) == committed

\* the SchemaMaps handed to sync_to_db: table i is named "T<i>" and has a
\* foreign key to nothing (0), to table "T<j>" (j), or to a table that is
\* not in the SchemaMap (n + 1)
SyncTableName(i) == "T" \o ToDec(i)
Elsewhere == "Other"

SyncTable(i, target, n) ==
    LET ref == IF target = n + 1 THEN Elsewhere ELSE SyncTableName(target) IN
    TableSchema(SyncTableName(i),
        <<ColumnSchema("id", "INT IDENTITY(1,1)", TRUE, FALSE, None, None)>>
        \o (IF target = 0 THEN <<>>
            ELSE <<ColumnSchema(ref \o "_id", "INT", FALSE, TRUE, ref, "id")>>)
        \o <<ColumnSchema("Value", "NVARCHAR(MAX)", FALSE, FALSE, None, None)>>,
        target = 0)

SyncInit ==
    /\ pc = "order"
    /\ name = "" /\ out1 = "" /\ out2 = ""
    /\ data = JNull
    /\ single_root = FALSE
    /\ queue = <<>>
    /\ tables = <<>>
    /\ processed_tables = {}
    /\ parent_of = <<>>
    /\ FlattenIdle
    /\ \E n \in 0..MaxTables : \E fk \in [1..n -> 0..(n + 1)] :
          schema_map = [i \in 1..n |-> SyncTable(i, fk[i], n)]
    /\ \E r \in 0..MaxRows :
          flat_data = IF r = 0 THEN <<>>
                      ELSE [x \in TableNames(schema_map) |-> [j \in 1..r |-> [id |-> j]]]
    /\ \E old \in BOOLEAN :
          before = IF old THEN [x \in TableNames(schema_map) \cup {Elsewhere} |-> <<[id |-> 0]>>]
                   ELSE <<>>
    /\ db = before
    /\ txn = before
    /\ sorted_tables = <<>>
    /\ pending = schema_map
    /\ error = FALSE
    /\ idx = 0
    /\ offset = 0
    /\ created = {}
    /\ log = <<>>

\* lines 116-128: one pass of the while loop
OrderPass ==
    /\ pc = "order"
    /\ Len(pending) > 0
    /\ LET pass == OrderScan([sorted |-> sorted_tables, pending |-> pending,
                              progress |-> FALSE], pending, schema_map, 1)
       IN IF pass.progress
          THEN /\ sorted_tables' = pass.sorted
               /\ pending' = pass.pending
               /\ pc' = "order"
          ELSE /\ sorted_tables' = Fallback(sorted_tables, pending)
               /\ pending' = pending
               /\ pc' = "begin"
    /\ UNCHANGED <<nameVars, analyzeVars, flattenVars, flat_data, db, txn, before, error,
                   idx, offset, created, log>>

\* line 116: the loop ends with nothing pending
OrderDone ==
    /\ pc = "order"
    /\ Len(pending) = 0
    /\ pc' = "begin"
    /\ UNCHANGED <<nameVars, analyzeVars, flattenVars, syncVars>>

\* line 155: the transaction begins
Begin ==
    /\ pc = "begin"
    /\ txn' = db
    /\ idx' = 1
    /\ pc' = IF Len(sorted_tables) = 0 THEN "create" ELSE "drop"
    /\ UNCHANGED <<nameVars, analyzeVars, flattenVars, flat_data, sorted_tables, pending, db,
                   before, error, offset, created, log>>

\* lines 158-161: the tables are dropped, last of the load order first
Drop ==
    /\ pc = "drop"
    /\ idx <= Len(sorted_tables)
    /\ txn' = DropTable(txn, reversed(sorted_tables)[idx].name)
    /\ log' = Append(log, Statement("drop", reversed(sorted_tables)[idx].name, <<>>))
    /\ idx' = idx + 1
    /\ pc' = IF idx = Len(sorted_tables) THEN "create" ELSE "drop"
    /\ UNCHANGED <<nameVars, analyzeVars, flattenVars, flat_data, sorted_tables, pending, db,
                   before, error, offset, created>>

\* line 164: create_all creates a table that does not exist yet
Create ==
    /\ pc = "create"
    /\ \E n \in TableNames(sorted_tables) \ created :
        /\ created' = created \cup {n}
        /\ IF n \in DOMAIN txn
           THEN UNCHANGED <<txn, log>>
           ELSE /\ txn' = CreateTable(txn, n)
                /\ log' = Append(log, Statement("create", n, <<>>))
    /\ UNCHANGED <<pc, nameVars, analyzeVars, flattenVars, flat_data, sorted_tables, pending,
                   db, before, error, idx, offset>>

\* line 164: create_all returns
CreateDone ==
    /\ pc = "create"
    /\ created = TableNames(sorted_tables)
    /\ pc' = "insert"
    /\ idx' = 1
    /\ offset' = 0
    /\ UNCHANGED <<nameVars, analyzeVars, flattenVars, flat_data, sorted_tables, pending, db,
                   txn, before, error, created, log>>

\* lines 167-174: one batch of the rows of a table
InsertBatch ==
    /\ pc = "insert"
    /\ idx <= Len(sorted_tables)
    /\ Len(RowsFor(sorted_tables[idx].name)) > 0
    /\ sorted_tables[idx].name \in DOMAIN txn
    /\ LET n == sorted_tables[idx].name
           rows == RowsFor(n)
       IN /\ txn' = InsertRows(txn, n, Batch(rows, offset))
          /\ log' = Append(log, Statement("insert", n, Batch(rows, offset)))
          /\ IF offset + chunk_size < Len(rows)
             THEN offset' = offset + chunk_size /\ idx' = idx
             ELSE offset' = 0 /\ idx' = idx + 1
    /\ UNCHANGED <<pc, nameVars, analyzeVars, flattenVars, flat_data, sorted_tables, pending,
                   db, before, error, created>>

\* lines 168-169: a table with no rows
InsertNone ==
    /\ pc = "insert"
    /\ idx <= Len(sorted_tables)
    /\ Len(RowsFor(sorted_tables[idx].name)) = 0
    /\ idx' = idx + 1
    /\ UNCHANGED <<pc, nameVars, analyzeVars, flattenVars, flat_data, sorted_tables, pending,
                   db, txn, before, error, offset, created, log>>

\* lines 155, 176: the block is left, the transaction commits, the call returns
Commit ==
    /\ pc = "insert"
    /\ idx > Len(sorted_tables)
    /\ db' = txn
    /\ pc' = "synced"
    /\ UNCHANGED <<nameVars, analyzeVars, flattenVars, flat_data, sorted_tables, pending,
                   txn, before, error, idx, offset, created, log>>

\* line 155: connecting, a statement or the commit raises: the transaction
\* is rolled back and the exception leaves sync_to_db
Fail ==
    /\ pc \in {"begin", "drop", "create", "insert"}
    /\ db' = AfterRollback(db, txn)
    /\ txn' = db'
    /\ error' = TRUE
    /\ pc' = "failed"
    /\ UNCHANGED <<nameVars, analyzeVars, flattenVars, flat_data, sorted_tables, pending,
                   before, idx, offset, created, log>>

SyncNext ==
    \/ OrderPass
    \/ OrderDone
    \/ Begin
    \/ Drop
    \/ Create
    \/ CreateDone
    \/ InsertBatch
    \/ InsertNone
    \/ Commit
    \/ Fail

SpecSync == SyncInit /\ [][SyncNext]_vars

(***************************************************************************)
(* The loader with row lists around the multiples of the batch size: one   *)
(* table with or without a foreign key, or two tables without, each with   *)
(* its own number of rows.                                                 *)
(***************************************************************************)
BatchRowCounts ==
    {0, 1} \cup {chunk_size * k + d : k \in 1..MaxBatches, d \in {-1, 0, 1}}

BatchInit ==
    /\ pc = "order"
    /\ name = "" /\ out1 = "" /\ out2 = ""
    /\ data = JNull
    /\ single_root = FALSE
    /\ queue = <<>>
    /\ tables = <<>>
    /\ processed_tables = {}
    /\ parent_of = <<>>
    /\ FlattenIdle
    /\ \/ \E target \in 0..2 : schema_map = <<SyncTable(1, target, 1)>>
       \/ schema_map = <<SyncTable(1, 0, 2), SyncTable(2, 0, 2)>>
    /\ \E count \in [TableNames(schema_map) -> BatchRowCounts] :
          flat_data = [x \in TableNames(schema_map) |-> [j \in 1..count[x] |-> [id |-> j]]]
    /\ \E old \in BOOLEAN :
          before = IF old THEN [x \in TableNames(schema_map) \cup {Elsewhere} |-> <<[id |-> 0]>>]
                   ELSE <<>>
    /\ db = before
    /\ txn = before
    /\ sorted_tables = <<>>
    /\ pending = schema_map
    /\ error = FALSE
    /\ idx = 0
    /\ offset = 0
    /\ created = {}
    /\ log = <<>>

SpecBatch == BatchInit /\ [][SyncNext]_vars

(***************************************************************************)
(* Claims about the pipeline (specification Spec)                          *)
(***************************************************************************)
Flattened == pc = "done" /\ RootIndex(schema_map) # 0

\* the document flattened is the document analysed
SameDocument == Flattened /\ resent = "same"

IsScalar(x) == x.t \notin {"obj", "list"}

\* the column a scalar key is stored under (lines 176-180, 93-95)
ColumnOfKey(k) == IF lower(k) = "id" THEN "original_id" ELSE k

\* C2: in the output of flatten_data the ids of each table's rows are
\* exactly 1, 2, ..., N in list order, N being the number of objects
\* dequeued for that table, whatever the document and the SchemaMap.
C2_RowKeysContiguous ==
    \A n \in DOMAIN flat_rows :
        /\ Len(flat_rows[n]) = dequeued[n]
        /\ \A i \in 1..Len(flat_rows[n]) : JEq(flat_rows[n][i]["id"], JInt(i))

\* a table was fed by work items of two different parent rows
C2_Witness ==
    /\ pc = "done"
    /\ \E n \in DOMAIN flat_rows : \E i, j \in 1..Len(flat_rows[n]) :
        /\ "Root_id" \in DOMAIN flat_rows[n][i]
        /\ "Root_id" \in DOMAIN flat_rows[n][j]
        /\ ~JEq(flat_rows[n][i]["Root_id"], flat_rows[n][j]["Root_id"])
        /\ Len(flat_rows[n]) >= 3

\* the types of the non-null scalar samples of key k among the sampled rows
SampleTypes(rows, k) ==
    UNION { {determine_sql_type(rows[i].v[j].v) :
                j \in {x \in 1..(IF IsDict(rows[i]) THEN Len(rows[i].v) ELSE 0) :
                         /\ rows[i].v[x].k = k
                         /\ IsScalar(rows[i].v[x].v)
                         /\ rows[i].v[x].v.t # "null"}} :
            i \in 1..Min(SAMPLE_ROWS, Len(rows)) }

\* the widest of a set of types: TEXT, else FLOAT, else INTEGER, else BOOLEAN
Widest(types) ==
    IF "NVARCHAR(MAX)" \in types THEN "NVARCHAR(MAX)"
    ELSE IF "FLOAT" \in types THEN "FLOAT"
    ELSE IF "INT" \in types THEN "INT"
    ELSE "BIT"

\* the rows of the root table as the analyzer sees them
RootObjects == IF IsDict(data) THEN <<data>> ELSE IF IsList(data) THEN data.v ELSE <<>>

\* C6: the type inferred for a column depends only on the set of types of
\* its non-null scalar samples, not on their order: TEXT if any sample is
\* text, else FLOAT if any is a float, else INTEGER if any is an integer,
\* else BOOLEAN.
C6_TypeIsWidestOfSamples ==
    (pc # "analyze" /\ Len(tables) > 0 /\ tables[1].name = root_name) =>
        \A i \in 1..Len(tables[1].columns) :
            LET c == tables[1].columns[i] IN
            (~c.is_pk /\ ~c.is_fk /\ c.name # "original_id") =>
                c.type = Widest(SampleTypes(RootObjects, c.name))

\* a bare object with at least one field, all of them non-null scalars
ScalarOnlyObject(d) ==
    /\ IsDict(d)
    /\ Len(d.v) > 0
    /\ \A i \in 1..Len(d.v) : IsScalar(d.v[i].v) /\ d.v[i].v.t # "null"

\* C7: for a single top-level object holding only scalar fields the
\* SchemaMap has exactly one table, a root table whose columns are id and
\* one typed column per field, and flatten_data yields exactly one row for
\* it, with key 1 and the object's scalar values.
C7_ScalarObjectOneTableOneRow ==
    (pc = "done" /\ resent = "same" /\ ScalarOnlyObject(data)) =>
        /\ Len(schema_map) = 1
        /\ schema_map[1].is_root
        /\ Len(schema_map[1].columns) = 1 + Len(data.v)
        /\ schema_map[1].columns[1].name = "id"
        /\ \A i \in 1..Len(data.v) :
            /\ schema_map[1].columns[i + 1].name = ColumnOfKey(data.v[i].k)
            /\ schema_map[1].columns[i + 1].type = determine_sql_type(data.v[i].v)
        /\ DOMAIN flat_rows = {schema_map[1].name}
        /\ Len(flat_rows[schema_map[1].name]) = 1
        /\ JEq(flat_rows[schema_map[1].name][1]["id"], JInt(1))
        /\ \A i \in 1..Len(data.v) :
            /\ ColumnOfKey(data.v[i].k) \in DOMAIN flat_rows[schema_map[1].name][1]
            /\ JEq(flat_rows[schema_map[1].name][1][ColumnOfKey(data.v[i].k)], data.v[i].v)

\* the row an element of a list stands for carries the element's non-null
\* scalar fields, or the element itself as Value
CarriesElement(row, elem) ==
    LET obj == AsObject(elem) IN
    \A i \in 1..Len(obj.v) :
        (IsScalar(obj.v[i].v) /\ obj.v[i].v.t # "null") =>
            /\ ColumnOfKey(obj.v[i].k) \in DOMAIN row
            /\ JEq(row[ColumnOfKey(obj.v[i].k)], obj.v[i].v)

\* C8: for a single top-level object with a key holding a list of n
\* elements, flattening the same document against the root-collapsed
\* SchemaMap yields exactly n rows in the promoted child table, with keys
\* 1..n in list order, each carrying its element's scalar fields or Value.
C8_CollapsedListYieldsRows ==
    (pc = "done" /\ resent = "same" /\ IsDict(data)) =>
        \A m \in 1..Len(data.v) :
            (IsList(data.v[m].v) /\ Len(data.v[m].v.v) > 0) =>
                LET tname == ChildTableName(root_name, data.v[m].k)
                    elems == data.v[m].v.v
                IN /\ tname \in DOMAIN flat_rows
                   /\ Len(flat_rows[tname]) = Len(elems)
                   /\ \A i \in 1..Len(elems) :
                        /\ i <= Len(flat_rows[tname])
                        /\ JEq(flat_rows[tname][i]["id"], JInt(i))
                        /\ CarriesElement(flat_rows[tname][i], elems[i])

\* a top-level list of two or more objects: root-collapsing does not apply
UncollapsedList(d) ==
    /\ IsList(d)
    /\ Len(d.v) >= 2
    /\ \A i \in 1..Len(d.v) : IsDict(d.v[i])

\* C9: analyzer and flattener derive the same table name for every child
\* relationship of the document, also when "<table>_<key>" has more than
\* 110 characters, so every child occurrence whose table is in the
\* SchemaMap produces a row in that table.
C9_SameChildNames ==
    (SameDocument /\ UncollapsedList(data)) =>
        \A i \in 1..Len(data.v) : \A j \in 1..Len(data.v[i].v) :
            LET m == data.v[i].v[j] IN
            (IsDict(m.v) \/ (IsList(m.v) /\ Len(m.v.v) > 0)) =>
                /\ FlatChildName(root_name, m.k) = ChildTableName(root_name, m.k)
                /\ HasSchema(schema_map, ChildTableName(root_name, m.k)) =>
                       Len(flat_rows[ChildTableName(root_name, m.k)]) > 0

\* no list of the value holds anything but objects
RECURSIVE NoScalarArrays(_)
NoScalarArrays(x) ==
    IF IsDict(x) THEN \A i \in 1..Len(x.v) : NoScalarArrays(x.v[i].v)
    ELSE IF IsList(x) THEN \A i \in 1..Len(x.v) : IsDict(x.v[i]) /\ NoScalarArrays(x.v[i])
    ELSE TRUE

\* the rows of table child whose foreign key names the row parent_id of parent
AttachedRows(child, parent, parent_id) ==
    IF ~HasSchema(schema_map, child) \/ child \notin DOMAIN flat_rows THEN <<>>
    ELSE LET schema == SchemaOf(schema_map, child)
             fks == {schema.columns[i].name : i \in {x \in 1..Len(schema.columns) :
                        schema.columns[x].is_fk /\ schema.columns[x].fk_table = parent}}
         IN SelectSeq(flat_rows[child],
                      LAMBDA r : \E f \in fks : f \in DOMAIN r /\ JEq(r[f], parent_id))

\* the tree rebuilt under the row of table tname is the object: same scalar
\* values, and under each child key the attached child rows, in order,
\* rebuild the child objects
RECURSIVE Rebuilds(_, _, _)
Rebuilds(obj, tname, row) ==
    \A i \in 1..Len(obj.v) :
        LET m == obj.v[i] IN
        IF m.v.t = "null" THEN TRUE
        ELSE IF IsScalar(m.v)
        THEN ColumnOfKey(m.k) \in DOMAIN row /\ JEq(row[ColumnOfKey(m.k)], m.v)
        ELSE LET kids == IF IsList(m.v) THEN m.v.v ELSE <<m.v>>
                 rows == AttachedRows(ChildTableName(tname, m.k), tname, row["id"])
             IN /\ Len(rows) = Len(kids)
                /\ \A j \in 1..Len(kids) :
                      j <= Len(rows) /\ Rebuilds(kids[j], ChildTableName(tname, m.k), rows[j])

\* C10: round trip: for a document with no arrays of scalars to which
\* root-collapsing does not apply, flattening it against its own SchemaMap
\* and attaching each child row to the parent row its foreign key names
\* rebuilds the document's nested shape and scalar values, whatever the
\* key names.
C10_RoundTrip ==
    (SameDocument /\ UncollapsedList(data) /\ NoScalarArrays(data)) =>
        /\ Len(flat_rows[root_name]) = Len(data.v)
        /\ \A i \in 1..Len(data.v) : Rebuilds(data.v[i], root_name, flat_rows[root_name][i])

RECURSIVE Sum(_, _)
Sum(f, n) == IF n = 0 THEN 0 ELSE f[n] + Sum(f, n - 1)

\* every field of every row is a column the table's schema declares, and
\* only the tables of the SchemaMap have rows
OnlyDeclared ==
    /\ DOMAIN flat_rows = TableNames(schema_map)
    /\ \A n \in DOMAIN flat_rows : \A i \in 1..Len(flat_rows[n]) :
          DOMAIN flat_rows[n][i] \subseteq ColumnNames(SchemaOf(schema_map, n))

\* the size of a JSON value: one for the value, one more for each member of
\* an object, and the sizes of what it holds
RECURSIVE Size(_)
Size(x) ==
    IF IsDict(x) THEN 1 + Len(x.v) + Sum([i \in 1..Len(x.v) |-> Size(x.v[i].v)], Len(x.v))
    ELSE IF IsList(x) THEN 1 + Sum([i \in 1..Len(x.v) |-> Size(x.v[i])], Len(x.v))
    ELSE 1

\* the work left in the flattener's queue: every work item dequeued makes it
\* smaller, so the loop of lines 56-100 ends
Work(q) == Len(q) + Sum([i \in 1..Len(q) |->
                            Sum([j \in 1..Len(q[i].objects) |-> Size(q[i].objects[j])],
                                Len(q[i].objects))], Len(q))

\* C11: flatten_data never raises on a structural mismatch: for every
\* SchemaMap and every JSON value, also one the SchemaMap was not derived
\* from, it completes and returns rows; a scalar field is copied into a row
\* only if the table's schema declares a column of that name, and a child
\* whose table name is not in the SchemaMap adds no rows and no error.
C11_SilentOmission ==
    /\ [](pc # "raised" /\ (Flattened => OnlyDeclared))
    /\ [][(pc = "flatten" /\ pc' = "flatten") => Work(fqueue') < Work(fqueue)]_vars

\* another document was flattened: its undeclared field "extra" is in no
\* row, its declared field "sku" is, and the element that is no object
\* became a row as well
C11_Witness ==
    /\ pc = "done"
    /\ resent = "other"
    /\ root_name \in DOMAIN flat_rows
    /\ Len(flat_rows[root_name]) = 2
    /\ "sku" \in DOMAIN flat_rows[root_name][1]
    /\ "extra" \notin DOMAIN flat_rows[root_name][1]
    /\ "sku" \notin DOMAIN flat_rows[root_name][2]

Analysed == pc # "analyze"

\* the parent a table of the returned SchemaMap has in it, None if it has none
ParentIn(sm, t) ==
    IF parent_of[t.name] # None /\ parent_of[t.name] \in TableNames(sm)
    THEN parent_of[t.name] ELSE None

\* the layout of the columns of table t, fk_name(p) being the name of the
\* foreign-key column of a table whose parent is p
ColumnLayout(sm, t, fk_name(_)) ==
    /\ Len(t.columns) >= 1
    /\ t.columns[1].is_pk /\ t.columns[1].name = "id"
    /\ \A i \in 2..Len(t.columns) : ~t.columns[i].is_pk
    /\ IF ParentIn(sm, t) # None
       THEN /\ Len(t.columns) >= 2
            /\ t.columns[2].is_fk
            /\ t.columns[2].name = fk_name(ParentIn(sm, t))
            /\ t.columns[2].fk_table = ParentIn(sm, t)
            /\ t.columns[2].fk_column = "id"
            /\ \A i \in 3..Len(t.columns) : ~t.columns[i].is_fk
       ELSE \A i \in 1..Len(t.columns) : ~t.columns[i].is_fk

C13_ForeignKeySet ==
    Flattened => \A n \in DOMAIN flat_rows : \A i \in 1..Len(flat_rows[n]) :
        LET schema == SchemaOf(schema_map, n) IN
        (parent_ids[n][i] # 0 /\ FkIndex(schema) # 0) =>
            /\ schema.columns[FkIndex(schema)].name \in DOMAIN flat_rows[n][i]
            /\ JEq(flat_rows[n][i][schema.columns[FkIndex(schema)].name],
                   JInt(parent_ids[n][i]))

\* the input is a single object or a one-element list holding one object
SingleObjectInput(d) == IsDict(d) \/ (IsList(d) /\ Len(d.v) = 1 /\ IsDict(d.v[1]))

C18_ReferentialIntegrity ==
    SameDocument => \A n \in DOMAIN flat_rows : \A i \in 1..Len(flat_rows[n]) :
        LET schema == SchemaOf(schema_map, n) IN
        \A c \in 1..Len(schema.columns) :
            (schema.columns[c].is_fk /\ schema.columns[c].name \in DOMAIN flat_rows[n][i]) =>
                /\ schema.columns[c].fk_table \in DOMAIN flat_rows
                /\ \E j \in 1..Len(flat_rows[schema.columns[c].fk_table]) :
                      JEq(flat_rows[schema.columns[c].fk_table][j]["id"],
                          flat_rows[n][i][schema.columns[c].name])

\* C19: column names are unique within every table of the returned
\* SchemaMap, also when the object has several keys that differ only in
\* case from "id", a key named original_id, or a key equal to the name of
\* the synthetic foreign-key column.
C19_ColumnNamesUnique ==
    Analysed => \A t \in 1..Len(schema_map) :
        \A i, j \in 1..Len(schema_map[t].columns) :
            i # j => schema_map[t].columns[i].name # schema_map[t].columns[j].name

(***************************************************************************)
(* Claims about the loader (specification SpecSync)                        *)
(***************************************************************************)
\* the destination after a run that succeeds: the tables of the SchemaMap
\* hold the rows of flat_data, every other table is as it was
Loaded ==
    [x \in (DOMAIN before) \cup TableNames(schema_map) |->
        IF x \in TableNames(schema_map) THEN RowsFor(x) ELSE before[x]]

\* C1: the drops, creates and inserts of one run are a single transaction:
\* if a statement fails the error reaches the caller and the destination is
\* exactly what it was before the run; only when every statement succeeds
\* are all changes committed together.
C1_Atomic ==
    /\ pc # "synced" => db = before
    /\ pc = "failed" => error
    /\ pc = "synced" => ~error /\ db = Loaded

\* a run failed after it had dropped a table that held rows, created it
\* again and inserted into it
C1_Witness ==
    /\ pc = "failed"
    /\ \E i, j, k \in 1..Len(log) :
        /\ i < j /\ j < k
        /\ log[i].op = "drop" /\ log[i].table \in DOMAIN before
        /\ log[j].op = "create" /\ log[j].table = log[i].table
        /\ log[k].op = "insert" /\ log[k].table = log[i].table

\* the table the foreign key of table i references, as an index into the
\* SchemaMap, 0 if it has no foreign key or references no table of the map
RefIndex(sm, i) ==
    IF FkIndex(sm[i]) = 0 THEN 0
    ELSE IF \E j \in 1..Len(sm) : sm[j].name = sm[i].columns[FkIndex(sm[i])].fk_table
    THEN CHOOSE j \in 1..Len(sm) : sm[j].name = sm[i].columns[FkIndex(sm[i])].fk_table
    ELSE 0

\* the table reached from table i by following k foreign keys
RECURSIVE Ancestor(_, _, _)
Ancestor(sm, i, k) == IF k = 0 \/ i = 0 THEN i ELSE Ancestor(sm, RefIndex(sm, i), k - 1)

Acyclic(sm) == \A i \in 1..Len(sm) : \A k \in 1..Len(sm) : Ancestor(sm, i, k) # i

PlaceOf(seq, n) == CHOOSE i \in 1..Len(seq) : seq[i].name = n

Ordered == pc \in {"begin", "drop", "create", "insert", "synced", "failed"}

\* C3: for a SchemaMap whose foreign-key graph is acyclic the load order
\* holds every table, once, and each table with a foreign key to another
\* table of the SchemaMap comes strictly after that table.
C3_ParentsFirst ==
    (Ordered /\ Acyclic(schema_map)) =>
        /\ Len(sorted_tables) = Len(schema_map)
        /\ \A i \in 1..Len(schema_map) :
            /\ \E j \in 1..Len(sorted_tables) : sorted_tables[j] = schema_map[i]
            /\ RefIndex(schema_map, i) # 0 =>
                PlaceOf(sorted_tables, schema_map[RefIndex(schema_map, i)].name)
                    < PlaceOf(sorted_tables, schema_map[i].name)

\* an acyclic chain of three tables listed child first
C3_Witness ==
    /\ Ordered
    /\ Acyclic(schema_map)
    /\ Len(schema_map) >= 3
    /\ RefIndex(schema_map, 1) = 2
    /\ RefIndex(schema_map, 2) = 3

\* the statements of the log of one kind, in order
Statements(op) == SelectSeq(log, LAMBDA e : e.op = op)

StatementRank(op) == CASE op = "drop" -> 1 [] op = "create" -> 2 [] op = "insert" -> 3

\* the rows the first k statements of the log inserted into table n
RECURSIVE RowsInserted(_, _)
RowsInserted(n, k) ==
    IF k = 0 THEN <<>>
    ELSE RowsInserted(n, k - 1)
         \o (IF log[k].op = "insert" /\ log[k].table = n THEN log[k].rows ELSE <<>>)

\* the table of the SchemaMap that table n references, None if there is none
Referenced(n) ==
    LET i == PlaceOf(schema_map, n) IN
    IF RefIndex(schema_map, i) = 0 THEN None ELSE schema_map[RefIndex(schema_map, i)].name

\* C14: within one run every drop comes before every create and every
\* create before every insert; the drops visit the tables in reverse load
\* order (a child is dropped before the table it references), the inserts
\* visit them in load order (for an acyclic schema the rows of a table are
\* inserted only after all rows of the table it references).
C14_StatementOrder ==
    /\ \A i, j \in 1..Len(log) :
          i < j => StatementRank(log[i].op) <= StatementRank(log[j].op)
    /\ \A i \in 1..Len(Statements("drop")) :
          Statements("drop")[i].table = sorted_tables[Len(sorted_tables) - i + 1].name
    /\ pc \in {"create", "insert", "synced"} =>
          Len(Statements("drop")) = Len(sorted_tables)
    /\ \A i, j \in 1..Len(Statements("insert")) :
          i < j => PlaceOf(sorted_tables, Statements("insert")[i].table)
                     <= PlaceOf(sorted_tables, Statements("insert")[j].table)
    /\ Acyclic(schema_map) =>
          /\ \A i, j \in 1..Len(Statements("drop")) :
                Referenced(Statements("drop")[i].table) = Statements("drop")[j].table => i < j
          /\ \A k \in 1..Len(log) :
                (log[k].op = "insert" /\ Referenced(log[k].table) # None) =>
                    RowsInserted(Referenced(log[k].table), k - 1)
                        = RowsFor(Referenced(log[k].table))

\* a run over a chain of three tables listed child first, each with rows,
\* into a destination that held them, went through to the commit
C14_Witness ==
    /\ pc = "synced"
    /\ Len(schema_map) = 3
    /\ RefIndex(schema_map, 1) = 2
    /\ RefIndex(schema_map, 2) = 3
    /\ DOMAIN before # {}
    /\ Len(Statements("drop")) = 3
    /\ Len(Statements("create")) = 3
    /\ Len(Statements("insert")) = 3

\* the tables of the SchemaMap that are in seq, in the SchemaMap's order
InSchemaOrder(seq) ==
    SelectSeq(schema_map, LAMBDA t : \E i \in 1..Len(seq) : seq[i] = t)

\* C15: the load-order computation ends without error for every SchemaMap,
\* also one whose foreign keys form a cycle or a self-reference: every pass
\* but the last places a table, a pass that places none appends the tables
\* that remain in their SchemaMap order, and the order holds every table of
\* the SchemaMap exactly once.
C15_OrderTerminates ==
    /\ [][pc = "order" =>
            /\ pc' \in {"order", "begin"}
            /\ pc' = "order" => Len(pending') < Len(pending)]_vars
    /\ [](Ordered =>
            /\ Len(sorted_tables) = Len(schema_map)
            /\ \A i \in 1..Len(schema_map) :
                  Cardinality({j \in 1..Len(sorted_tables) :
                                  sorted_tables[j] = schema_map[i]}) = 1
            /\ Len(pending) > 0 =>
                  /\ pending = InSchemaOrder(pending)
                  /\ SubSeq(sorted_tables, Len(sorted_tables) - Len(pending) + 1,
                            Len(sorted_tables)) = pending)

\* the order was computed for a SchemaMap with a cycle of two tables and a
\* table that references itself, after a table that could be placed
C15_Witness ==
    /\ pc = "begin"
    /\ Len(schema_map) = 3
    /\ RefIndex(schema_map, 1) = 2
    /\ RefIndex(schema_map, 2) = 1
    /\ RefIndex(schema_map, 3) = 0
    /\ Len(pending) = 2
    /\ sorted_tables[1] = schema_map[3]

(***************************************************************************)
(* Claims about the SchemaMap the loader is given by the analyzer          *)
(* (specification Spec)                                                    *)
(***************************************************************************)
\* C20: in every SchemaMap the analyzer returns the table names are
\* pairwise distinct and every foreign-key column references a table that
\* is in the SchemaMap and earlier in its list; hence the foreign-key graph
\* is acyclic and the loader's fallback for cycles is not taken for it.
C20_AnalyzerOutputOrdered ==
    Analysed =>
        /\ \A i, j \in 1..Len(schema_map) : i # j => schema_map[i].name # schema_map[j].name
        /\ \A i \in 1..Len(schema_map) : \A c \in 1..Len(schema_map[i].columns) :
              schema_map[i].columns[c].is_fk =>
                  \E j \in 1..(i - 1) : schema_map[j].name = schema_map[i].columns[c].fk_table
        /\ Acyclic(schema_map)
        /\ ~LoadOrder(<<>>, schema_map, schema_map).fallback

\* a SchemaMap was returned with a table, its child and its grandchild, and
\* one for a single object with a promoted child and its child
C20_Witness ==
    /\ pc = "sync_request"
    /\ Len(schema_map) >= 2
    /\ \/ /\ Len(schema_map) = 3
          /\ RefIndex(schema_map, 3) = 2
          /\ RefIndex(schema_map, 2) = 1
       \/ /\ single_root
          /\ RefIndex(schema_map, 2) = 1
          /\ RefIndex(schema_map, 1) = 0

(***************************************************************************)
(* Claims about the batches (specification SpecBatch)                      *)
(***************************************************************************)
\* C16: the rows of every table are inserted in statements of at most 500
\* rows each; the batches in order concatenate to exactly the table's row
\* list, so every row is inserted once and in row order, and a table with
\* no rows issues no insert statement.
C16_BatchesOfAtMost500 ==
    /\ \A k \in 1..Len(log) :
          log[k].op = "insert" => Len(log[k].rows) >= 1 /\ Len(log[k].rows) <= 500
    /\ \A n \in TableNames(schema_map) :
          LET done == RowsInserted(n, Len(log)) IN
          /\ Len(done) <= Len(RowsFor(n))
          /\ done = SubSeq(RowsFor(n), 1, Len(done))
          /\ pc = "synced" => done = RowsFor(n)

\* a run was committed that inserted the 1001 rows of a table in three
\* statements and issued none for a table with no rows
C16_Witness ==
    /\ pc = "synced"
    /\ \E n \in TableNames(schema_map) :
          /\ Len(RowsFor(n)) = 2 * chunk_size + 1
          /\ Len(SelectSeq(log, LAMBDA e : e.op = "insert" /\ e.table = n)) = 3
    /\ \E n \in TableNames(schema_map) :
          /\ Len(RowsFor(n)) = 0
          /\ Len(SelectSeq(log, LAMBDA e : e.op = "insert" /\ e.table = n)) = 0

====
